---- MODULE Spec2Model ----
(***************************************************************************)
(* One run of cloudbeds_occupancy_sync.py: main() awaits                   *)
(* fetch_occupancy_from_cloudbeds() (the Airtop scrape with its retry      *)
(* loop and its try/except/finally) and, on a reading, update_airtable().  *)
(*                                                                         *)
(* A model response is a sequence of tokens.  Whitespace and quote         *)
(* characters are one token each, so that str.strip() is modelled by what  *)
(* it removes; a JSON document is the sequence of its lexical tokens, so   *)
(* that json.loads() is modelled by a parser.                              *)
(***************************************************************************)
EXTENDS Integers, Sequences, FiniteSets, TLC

(***************************************************************************)
(* Bounds of the model.                                                    *)
(***************************************************************************)
\* unit counts in the sample payloads range over 0..MaxVal
MaxVal == 1

(***************************************************************************)
(* Configuration (module level of the script).                             *)
(***************************************************************************)
AIRTOP_DEFAULT == "YOUR_API_KEY_HERE"
AIRTABLE_DEFAULT == "YOUR_AIRTABLE_API_KEY"

FIELD_AVAILABLE == "Available Units"
FIELD_BOOKED == "Booked Units"
FIELD_OOS == "Out of Service"
FIELD_BLOCKED == "Blocked Dates"

max_attempts == 3

expected_keys == {"available_units", "booked_units", "out_of_service", "blocked_dates"}

\* os.getenv(name, default): the environment is <<>> when the variable is
\* unset and <<value>> when it is set.
getenv(env, default) == IF env = <<>> THEN default ELSE env[1]

(***************************************************************************)
(* Tokens of a model response.                                             *)
(***************************************************************************)
WS == [k |-> "ws", s |-> " "]
DQ == [k |-> "quote", s |-> "\""]
SQ == [k |-> "quote", s |-> "'"]
P(x) == [k |-> "punct", s |-> x]      \* { } : ,
S(x) == [k |-> "str", s |-> x]        \* a JSON string literal "x"
L(x) == [k |-> "lit", s |-> x]        \* a JSON number / null literal
W(x) == [k |-> "word", s |-> x]       \* bare text

NO_DATA == <<W("NO_DATA")>>

(***************************************************************************)
(* str.strip(): drop the leading and trailing characters of a class.       *)
(***************************************************************************)
RECURSIVE LStrip(_, _)
LStrip(raw, kind) ==
    IF raw # <<>> /\ Head(raw).k = kind THEN LStrip(Tail(raw), kind) ELSE raw

RECURSIVE RStrip(_, _)
RStrip(raw, kind) ==
    IF raw # <<>> /\ raw[Len(raw)].k = kind
    THEN RStrip(SubSeq(raw, 1, Len(raw) - 1), kind)
    ELSE raw

Strip(raw, kind) == RStrip(LStrip(raw, kind), kind)

\* raw_stripped = raw.strip()
RawStripped(raw) == Strip(raw, "ws")

\* normalized = raw_stripped.strip("\"'").strip()
Normalized(raw) == Strip(Strip(RawStripped(raw), "quote"), "ws")

\* normalized == "NO_DATA"
IsSentinel(raw) == Normalized(raw) = NO_DATA

\* ("{" in raw_stripped instead of startswith)
StartsWithBraceAnywhere(raw) == \E i \in DOMAIN raw : raw[i] = P("{")

\* raw_stripped.startswith("{")
StartsWithBrace(raw) ==
    /\ RawStripped(raw) # <<>>
    /\ Head(RawStripped(raw)) = P("{")

(***************************************************************************)
(* json.loads(): literals, then the object grammar.                        *)
(***************************************************************************)
Digits == <<"0", "1", "2", "3", "4", "5", "6", "7", "8", "9">>

\* Python values: [t |-> type, v |-> magnitude]; a float's v is in tenths.
PyInt(n) == [t |-> "int", v |-> n]
PyFloat(tenths) == [t |-> "float", v |-> tenths]
PyNone == [t |-> "NoneType", v |-> 0]
PyStr == [t |-> "str", v |-> 0]

IsDigit(s) == \E d \in 1..Len(Digits) : Digits[d] = s
DigitValue(s) == (CHOOSE d \in 1..Len(Digits) : Digits[d] = s) - 1

\* the value of one literal token (None when it is no JSON value)
LiteralKnown(tok) ==
    \/ tok.k = "str"
    \/ tok.k = "lit" /\ (IsDigit(tok.s) \/ tok.s \in {"-1", "0.0", "2.5", "null"})

LiteralValue(tok) ==
    IF tok.k = "str" THEN PyStr
    ELSE IF IsDigit(tok.s) THEN PyInt(DigitValue(tok.s))
    ELSE CASE tok.s = "-1" -> PyInt(-1)
           [] tok.s = "0.0" -> PyFloat(0)
           [] tok.s = "2.5" -> PyFloat(25)
           [] OTHER -> PyNone

JSONDecodeError == [ok |-> FALSE, obj |-> <<>>]

\* members of an object from position i on: key ":" value, then "," or "}".
\* A repeated key keeps its last value, as a Python dict does.
RECURSIVE ParseMembers(_, _, _)
ParseMembers(toks, i, acc) ==
    IF i + 3 > Len(toks) THEN JSONDecodeError
    ELSE IF ~ (toks[i].k = "str" /\ toks[i + 1] = P(":") /\ LiteralKnown(toks[i + 2]))
    THEN JSONDecodeError
    ELSE LET obj == (toks[i].s :> LiteralValue(toks[i + 2])) @@ acc
         IN  IF toks[i + 3] = P("}")
             THEN IF i + 3 = Len(toks) THEN [ok |-> TRUE, obj |-> obj]
                  ELSE JSONDecodeError          \* "Extra data"
             ELSE IF toks[i + 3] = P(",") THEN ParseMembers(toks, i + 4, obj)
             ELSE JSONDecodeError

\* json.loads(text) for a text that starts with "{"; whitespace between
\* tokens is insignificant
JsonLoads(text) ==
    LET toks == SelectSeq(text, LAMBDA t : t.k # "ws")
    IN  IF Len(toks) < 2 \/ toks[1] # P("{") THEN JSONDecodeError
        ELSE IF toks[2] = P("}")
             THEN IF Len(toks) = 2 THEN [ok |-> TRUE, obj |-> <<>>]
                  ELSE JSONDecodeError
        ELSE ParseMembers(toks, 2, <<>>)

(***************************************************************************)
(* The sample of model responses the page query may return.                *)
(***************************************************************************)
KeyOrder == <<"available_units", "booked_units", "out_of_service", "blocked_dates">>
RevOrder == <<"blocked_dates", "out_of_service", "booked_units", "available_units">>

RECURSIVE Members(_, _)
Members(order, lit) ==
    IF order = <<>> THEN <<>>
    ELSE <<S(Head(order)), P(":"), lit[Head(order)]>>
         \o (IF Tail(order) = <<>> THEN <<>> ELSE <<P(",")>> \o Members(Tail(order), lit))

\* the text of a JSON object with the keys of `order`, in that order
JsonText(order, lit) == <<P("{")>> \o Members(order, lit) \o <<P("}")>>

IntLit(n) == L(Digits[n + 1])
IntLits(f) == [k \in DOMAIN f |-> IntLit(f[k])]

IntReadings == [expected_keys -> 0..MaxVal]
ZeroReading == [k \in expected_keys |-> 0]
FullReading == [k \in expected_keys |-> MaxVal]

Without(order, k) == SelectSeq(order, LAMBDA x : x # k)

\* the sentinel, bare and wrapped in whitespace and quotes
SentinelTexts ==
    { NO_DATA,
      <<DQ>> \o NO_DATA \o <<DQ>>,
      <<WS, SQ, WS>> \o NO_DATA \o <<WS, SQ, WS>> }

\* four-key integer payloads, as the prompt asks for them
PlainJsonTexts == { JsonText(KeyOrder, IntLits(f)) : f \in IntReadings }

\* the same with other key order and surrounding whitespace
PaddedJsonTexts ==
    { <<WS>> \o JsonText(RevOrder, IntLits(f)) \o <<WS, WS>> :
        f \in {FullReading, [ZeroReading EXCEPT !["blocked_dates"] = MaxVal]} }

\* one value that is no non-negative integer
OddValueTexts ==
    { JsonText(KeyOrder, [IntLits(ZeroReading) EXCEPT !["booked_units"] = lit]) :
        lit \in {L("-1"), L("0.0"), L("2.5"), L("null"), S("x")} }

\* a fifth key
ExtraKeyTexts ==
    { JsonText(KeyOrder \o <<"occupancy_pct">>,
               IntLits(f) @@ ("occupancy_pct" :> IntLit(MaxVal))) :
        f \in {ZeroReading, [ZeroReading EXCEPT !["available_units"] = MaxVal]} }

\* a required key absent
MissingKeyTexts ==
    { JsonText(Without(KeyOrder, k), IntLits(f)) :
        k \in expected_keys, f \in {ZeroReading, FullReading} }
    \cup { JsonText(<<>>, <<>>) }

\* starts with "{" and is no JSON document
MalformedTexts ==
    { SubSeq(JsonText(KeyOrder, IntLits(FullReading)), 1, 15),
      JsonText(KeyOrder, IntLits(FullReading)) \o <<DQ>> }

\* neither the sentinel nor an object
OtherTexts ==
    { <<>>,
      <<W("Sorry")>>,
      NO_DATA \o <<WS, W("Sorry")>>,
      <<DQ, WS, SQ>> \o NO_DATA \o <<SQ, WS, DQ>>,
      <<DQ>> \o JsonText(KeyOrder, IntLits(FullReading)) \o <<DQ>> }

Responses ==
    SentinelTexts \cup PlainJsonTexts \cup PaddedJsonTexts \cup OddValueTexts
    \cup ExtraKeyTexts \cup MissingKeyTexts \cup MalformedTexts \cup OtherTexts

(***************************************************************************)
(* State of one run.                                                       *)
(***************************************************************************)
VARIABLES
    pc,                 \* where the run is
    AIRTOP_API_KEY,     \* module constant, read from the environment
    AIRTABLE_API_KEY,   \* module constant, read from the environment
    session_id,         \* "None" until sessions.create yields an id
    attempt,            \* loop variable of the retry loop
    raws,               \* raw model response of each attempt so far
    ret,                \* what fetch_occupancy_from_cloudbeds returned
    occupancy,          \* the dict it returned
    exc,                \* the exception in flight
    trace,              \* outbound calls, sleeps and log lines, in order
    patch_body,         \* json body of the PATCH sent to Airtable
    exit_status         \* how the process ended

vars == <<pc, AIRTOP_API_KEY, AIRTABLE_API_KEY, session_id, attempt, raws, ret,
          occupancy, exc, trace, patch_body, exit_status>>

NoExc == [type |-> "none", line |-> 0]
Raise(type, line) == [type |-> type, line |-> line]

Call(op, arg) == [op |-> op, arg |-> arg]
Log(level) == [op |-> "log", arg |-> level]
Sleep(why) == [op |-> "sleep", arg |-> why]

\* what a call to the Airtop client may throw
AirtopThrows == {"ApiError", "ReadTimeout", "HTTPError"}

\* values of the two environment variables
AirtopEnvs == {<<>>, <<"">>, <<"AIRTOP_API_KEY">>, <<"sk-live">>}
AirtableEnvs == {<<>>, <<"">>, <<"pat-live">>}

Init ==
    /\ pc = "fetch"
    /\ AIRTOP_API_KEY \in {getenv(e, AIRTOP_DEFAULT) : e \in AirtopEnvs}
    /\ AIRTABLE_API_KEY \in {getenv(e, AIRTABLE_DEFAULT) : e \in AirtableEnvs}
    /\ session_id = "None"
    /\ attempt = 0
    /\ raws = <<>>
    /\ ret = "unset"
    /\ occupancy = <<>>
    /\ exc = NoExc
    /\ trace = <<>>
    /\ patch_body = <<>>
    /\ exit_status = "running"

(***************************************************************************)
(* fetch_occupancy_from_cloudbeds                                          *)
(***************************************************************************)
\* if not AIRTOP_API_KEY or AIRTOP_API_KEY == "AIRTOP_API_KEY"
AirtopKeyRejected(key) == key = "" \/ key = "AIRTOP_API_KEY"

\* the pre-flight check; it is outside the try statement
FetchEntry ==
    /\ pc = "fetch"
    /\ IF AirtopKeyRejected(AIRTOP_API_KEY)
       THEN /\ exc' = Raise("RuntimeError", 152)
            /\ pc' = "main"
       ELSE /\ exc' = exc
            /\ pc' = "sessions_create"
    /\ UNCHANGED <<AIRTOP_API_KEY, AIRTABLE_API_KEY, session_id, attempt, raws, ret,
                   occupancy, trace, patch_body, exit_status>>

\* (the profile request left out: the window is opened right away)
AfterSessionsCreateSkipsProfile == "windows_create"

\* the statement that follows line 175: save_profile_on_termination
AfterSessionsCreate == "save_profile"

\* session = await client.sessions.create(...); session_id = session.data.id
SessionsCreate ==
    /\ pc = "sessions_create"
    /\ \E out \in AirtopThrows \cup {"errors", "no_data", "ok"} :
         LET sent == trace \o <<Call("sessions.create", "")>>
         IN  CASE out \in AirtopThrows ->
                    /\ exc' = Raise(out, 170)
                    /\ pc' = "except"
                    /\ trace' = sent
                    /\ UNCHANGED session_id
               [] out = "errors" ->
                    /\ exc' = Raise("RuntimeError", 172)
                    /\ pc' = "except"
                    /\ trace' = sent
                    /\ UNCHANGED session_id
               [] OTHER ->
                    /\ session_id' = IF out = "ok" THEN "sess-1" ELSE "None"
                    /\ trace' = sent \o <<Log("INFO")>>
                    /\ pc' = AfterSessionsCreate
                    /\ UNCHANGED exc
    /\ UNCHANGED <<AIRTOP_API_KEY, AIRTABLE_API_KEY, attempt, raws, ret, occupancy,
                   patch_body, exit_status>>

\* await client.sessions.save_profile_on_termination(session_id, ...)
SaveProfile ==
    /\ pc = "save_profile"
    /\ trace' = trace \o <<Call("save_profile_on_termination", session_id)>>
    /\ \E out \in AirtopThrows \cup {"ok"} :
         IF out \in AirtopThrows
         THEN exc' = Raise(out, 178) /\ pc' = "except"
         ELSE exc' = exc /\ pc' = "windows_create"
    /\ UNCHANGED <<AIRTOP_API_KEY, AIRTABLE_API_KEY, session_id, attempt, raws, ret,
                   occupancy, patch_body, exit_status>>

\* window = await client.windows.create(session_id, url=...)
WindowsCreate ==
    /\ pc = "windows_create"
    /\ \E out \in AirtopThrows \cup {"no_data", "ok"} :
         LET sent == trace \o <<Call("windows.create", session_id)>>
         IN  CASE out \in AirtopThrows ->
                    exc' = Raise(out, 181) /\ pc' = "except" /\ trace' = sent
               [] out = "no_data" ->
                    exc' = Raise("RuntimeError", 186) /\ pc' = "except" /\ trace' = sent
               [] OTHER ->
                    exc' = exc /\ pc' = "settle" /\ trace' = sent \o <<Log("INFO")>>
    /\ UNCHANGED <<AIRTOP_API_KEY, AIRTABLE_API_KEY, session_id, attempt, raws, ret,
                   occupancy, patch_body, exit_status>>

\* await asyncio.sleep(5), then the first iteration of the loop
Settle ==
    /\ pc = "settle"
    /\ trace' = trace \o <<Sleep("settle")>>
    /\ attempt' = 1
    /\ pc' = "page_query"
    /\ UNCHANGED <<AIRTOP_API_KEY, AIRTABLE_API_KEY, session_id, raws, ret, occupancy,
                   exc, patch_body, exit_status>>

(***************************************************************************)
(* One iteration of the retry loop, from the model response on.            *)
(***************************************************************************)
\* (the difference taken the wrong way round)
MissingKeysReversed(occ) == DOMAIN occ \ expected_keys

\* missing = expected_keys - set(occupancy.keys())
MissingKeys(occ) == expected_keys \ DOMAIN occ

\* occupancy.get(k)
Get(occ, k) == IF k \in DOMAIN occ THEN occ[k] ELSE PyNone

\* (identity with the int 0 instead of equality)
EqualsZeroIntOnly(v) == v.t = "int" /\ v.v = 0

\* Python's v == 0: true of the int 0 and of the float 0.0
EqualsZero(v) == v.t \in {"int", "float"} /\ v.v = 0

\* (any() instead of all())
AllZeroAny(occ) == \E k \in expected_keys : EqualsZero(Get(occ, k))

\* all(occupancy.get(k) == 0 for k in expected_keys)
AllZero(occ) == \A k \in expected_keys : EqualsZero(Get(occ, k))

\* (off by one: the last attempt is not recognised)
LastAttemptOffByOne(a) == a = max_attempts + 1

\* attempt == max_attempts
LastAttempt(a) == a = max_attempts

Retry(logs) == [kind |-> "retry", exc |-> NoExc, obj |-> <<>>, logs |-> logs]
ReturnNone(logs) == [kind |-> "return_none", exc |-> NoExc, obj |-> <<>>, logs |-> logs]
Return(obj) == [kind |-> "return", exc |-> NoExc, obj |-> obj, logs |-> <<>>]
Raised(type, line, logs) ==
    [kind |-> "raise", exc |-> Raise(type, line), obj |-> <<>>, logs |-> logs]

\* (no retry: the first NO_DATA already returns None)
OnSentinelNoRetry(a) == ReturnNone(<<Log("WARNING"), Log("WARNING")>>)

\* (the check for the last attempt left out of the sentinel branch)
OnSentinelRetryAlways(a) == Retry(<<Log("WARNING")>>)

\* the sentinel branch
OnSentinel(a) ==
    IF LastAttempt(a)
    THEN ReturnNone(<<Log("WARNING"), Log("WARNING")>>)
    ELSE Retry(<<Log("WARNING")>>)

\* (no retry: the first all-zero payload already raises)
OnAllZeroRaiseAtOnce(a) == Raised("RuntimeError", 259, <<Log("WARNING")>>)

\* the all-zero branch
OnAllZero(a) ==
    IF LastAttempt(a)
    THEN Raised("RuntimeError", 259, <<Log("WARNING")>>)
    ELSE Retry(<<Log("WARNING")>>)

\* the checks on a parsed object
OnObject(occ, a) ==
    IF MissingKeys(occ) # {} THEN Raised("ValueError", 249, <<>>)
    ELSE IF AllZero(occ) THEN OnAllZero(a)
    ELSE Return(occ)

\* the body of the loop after the raw response was logged
OnResponse(raw, a) ==
    IF IsSentinel(raw) THEN OnSentinel(a)
    ELSE IF ~ StartsWithBrace(raw) THEN Raised("RuntimeError", 241, <<>>)
    ELSE LET parsed == JsonLoads(RawStripped(raw))
         IN  IF ~ parsed.ok THEN Raised("JSONDecodeError", 244, <<>>)
             ELSE OnObject(parsed.obj, a)

\* (a raise caught inside the loop and retried)
AfterLoopBodyRetriesRaise(kind) ==
    CASE kind \in {"retry", "raise"} -> "backoff"
      [] OTHER -> "finally"

\* target of a transfer of control out of the loop body
AfterLoopBody(kind) ==
    CASE kind = "retry" -> "backoff"
      [] kind = "raise" -> "except"
      [] OTHER -> "finally"

\* prompt_response = await client.windows.page_query(...) and what follows
PageQuery ==
    /\ pc = "page_query"
    /\ LET sent == trace \o <<Log("INFO"), Call("page_query", session_id)>>
       IN  \/ \E out \in AirtopThrows \cup {"error"} :
                /\ exc' = IF out = "error" THEN Raise("RuntimeError", 218)
                                           ELSE Raise(out, 208)
                /\ pc' = AfterLoopBody("raise")
                /\ trace' = sent
                /\ UNCHANGED <<raws, ret, occupancy>>
           \/ \E raw \in Responses :
                LET r == OnResponse(raw, attempt)
                IN  /\ raws' = Append(raws, raw)
                    /\ trace' = sent \o <<Log("INFO")>> \o r.logs
                    /\ exc' = r.exc
                    /\ pc' = AfterLoopBody(r.kind)
                    /\ ret' = CASE r.kind = "return" -> "dict"
                                [] r.kind = "return_none" -> "None"
                                [] OTHER -> ret
                    /\ occupancy' = IF r.kind = "return" THEN r.obj ELSE occupancy
    /\ UNCHANGED <<AIRTOP_API_KEY, AIRTABLE_API_KEY, session_id, attempt, patch_body,
                   exit_status>>

\* await asyncio.sleep(5); continue
Backoff ==
    /\ pc = "backoff"
    /\ trace' = trace \o <<Sleep("backoff")>>
    /\ attempt' = attempt + 1
    /\ IF attempt + 1 <= max_attempts
       THEN pc' = "page_query" /\ exc' = exc
       ELSE pc' = "except" /\ exc' = Raise("RuntimeError", 269)
    /\ UNCHANGED <<AIRTOP_API_KEY, AIRTABLE_API_KEY, session_id, raws, ret, occupancy,
                   patch_body, exit_status>>

\* (one handler for every exception)
ExceptLogsEverything(e) == <<Log("ERROR")>>

\* except ApiError / httpx.ReadTimeout / httpx.HTTPError: log and re-raise
ExceptLogs(e) == IF e.type \in AirtopThrows THEN <<Log("ERROR")>> ELSE <<>>

Except ==
    /\ pc = "except"
    /\ trace' = trace \o ExceptLogs(exc)
    /\ pc' = "finally"
    /\ UNCHANGED <<AIRTOP_API_KEY, AIRTABLE_API_KEY, session_id, attempt, raws, ret,
                   occupancy, exc, patch_body, exit_status>>

\* (the guard left out: terminate is called whatever session_id holds)
MustTerminateUnguarded(sid) == TRUE

\* (the cleanup left out)
MustTerminateNever(sid) == FALSE

\* if client is not None and session_id is not None
MustTerminate(sid) == sid # "None"

\* (no try/except around terminate: its error replaces what was in flight)
AfterTerminateEscalates(out, e) ==
    IF out = "ok" THEN e ELSE Raise("Exception", 288)

\* the exception in flight after the try/except around terminate: the one
\* that was in flight before it
AfterTerminate(out, e) == e

\* finally: terminate the session; an error of terminate is logged and dropped
Finally ==
    /\ pc = "finally"
    /\ IF MustTerminate(session_id)
       THEN \E out \in {"ok", "Exception"} :
              /\ trace' = trace \o <<Log("INFO"), Call("terminate", session_id),
                                     Call("terminate.result", out)>>
                          \o (IF out = "ok" THEN <<>> ELSE <<Log("WARNING")>>)
              /\ exc' = AfterTerminate(out, exc)
       ELSE trace' = trace /\ exc' = exc
    /\ pc' = "main"
    /\ UNCHANGED <<AIRTOP_API_KEY, AIRTABLE_API_KEY, session_id, attempt, raws, ret,
                   occupancy, patch_body, exit_status>>

(***************************************************************************)
(* main and update_airtable                                                *)
(***************************************************************************)
\* (the None check left out)
SkipUpdateNever(r) == FALSE

\* occupancy is None
SkipUpdate(r) == r = "None"

\* main() after the await of fetch_occupancy_from_cloudbeds()
Main ==
    /\ pc = "main"
    /\ IF exc # NoExc
       THEN /\ exit_status' = "failure"
            /\ pc' = "done"
            /\ trace' = trace
       ELSE IF SkipUpdate(ret)
       THEN /\ exit_status' = "success"
            /\ pc' = "done"
            /\ trace' = trace \o <<Log("WARNING")>>
       ELSE /\ exit_status' = exit_status
            /\ pc' = "update_airtable"
            /\ trace' = trace \o <<Log("INFO"), Call("update_airtable", "")>>
    /\ UNCHANGED <<AIRTOP_API_KEY, AIRTABLE_API_KEY, session_id, attempt, raws, ret,
                   occupancy, exc, patch_body>>

\* (compared with the name of the variable, as line 151 does)
AirtableKeyRejectedByName(key) == key = "" \/ key = "AIRTABLE_API_KEY"

\* if not AIRTABLE_API_KEY or AIRTABLE_API_KEY == "YOUR_AIRTABLE_API_KEY"
AirtableKeyRejected(key) == key = "" \/ key = "YOUR_AIRTABLE_API_KEY"

\* (two fields crossed over)
PayloadSwapped(occ) ==
    [fields |-> (FIELD_AVAILABLE :> Get(occ, "booked_units"))
                @@ (FIELD_BOOKED :> Get(occ, "available_units"))
                @@ (FIELD_OOS :> Get(occ, "out_of_service"))
                @@ (FIELD_BLOCKED :> Get(occ, "blocked_dates"))]

\* payload = {"fields": {...}}
Payload(occ) ==
    [fields |-> (FIELD_AVAILABLE :> Get(occ, "available_units"))
                @@ (FIELD_BOOKED :> Get(occ, "booked_units"))
                @@ (FIELD_OOS :> Get(occ, "out_of_service"))
                @@ (FIELD_BLOCKED :> Get(occ, "blocked_dates"))]

\* (raise_for_status left out)
RaiseForStatusNever(out) == NoExc

\* requests.patch(...) and resp.raise_for_status()
RaiseForStatus(out) ==
    CASE out = "2xx" -> NoExc
      [] out = "4xx" -> Raise("requests.HTTPError", 123)
      [] OTHER -> Raise("requests.ConnectionError", 121)

\* the log line after the PATCH
PatchLogs(out) ==
    CASE out = "2xx" -> <<Log("INFO")>>
      [] out = "4xx" -> <<Log("ERROR")>>
      [] OTHER -> <<>>

UpdateAirtable ==
    /\ pc = "update_airtable"
    /\ pc' = "done"
    /\ IF AirtableKeyRejected(AIRTABLE_API_KEY)
       THEN /\ exc' = Raise("RuntimeError", 102)
            /\ exit_status' = "failure"
            /\ UNCHANGED <<trace, patch_body>>
       ELSE /\ patch_body' = Payload(occupancy)
            /\ \E out \in {"2xx", "4xx", "ConnectionError"} :
                 /\ trace' = trace \o <<Log("INFO"), Call("requests.patch", ""),
                                        Call("patch.result", out)>>
                             \o PatchLogs(out)
                 /\ exc' = RaiseForStatus(out)
                 /\ exit_status' = IF RaiseForStatus(out) = NoExc THEN "success"
                                                                  ELSE "failure"
    /\ UNCHANGED <<AIRTOP_API_KEY, AIRTABLE_API_KEY, session_id, attempt, raws, ret,
                   occupancy>>

Next ==
    \/ FetchEntry
    \/ SessionsCreate
    \/ SaveProfile
    \/ WindowsCreate
    \/ Settle
    \/ PageQuery
    \/ Backoff
    \/ Except
    \/ Finally
    \/ Main
    \/ UpdateAirtable

Spec == Init /\ [][Next]_vars

(***************************************************************************)
(* Properties.                                                             *)
(***************************************************************************)
\* number of events `op` in the trace
Count(op) == Cardinality({i \in DOMAIN trace : trace[i].op = op})

\* the events of the trace
Range(seq) == {seq[i] : i \in DOMAIN seq}

\* fetch_occupancy_from_cloudbeds has returned or raised
FetchOver == pc \in {"main", "update_airtable", "done"}

\* lines of update_airtable that raise
UpdateRaiseLines == {102, 121, 123}

\* the exception, if any, was raised by fetch_occupancy_from_cloudbeds
FetchRaised == exc # NoExc /\ exc.line \notin UpdateRaiseLines

\* C1 (as stated): when fetch_occupancy_from_cloudbeds is over, terminate
\* was called exactly once, whatever the exit path.
C1_TerminateOnEveryExit == FetchOver => Count("terminate") = 1

\* C1 (amended): terminate is never called while the extraction is running
\* and at most once per run; once the extraction is over it has been called
\* exactly once if sessions.create yielded a session id and not at all
\* otherwise (credential error, sessions.create failed or gave no id).
C1_TerminateOncePerSession ==
    /\ Count("terminate") <= 1
    /\ ~ FetchOver => Count("terminate") = 0
    /\ FetchOver => (Count("terminate") = 1 <=> session_id # "None")
    /\ \A i \in DOMAIN trace : trace[i].op = "terminate" => trace[i].arg = "sess-1"

\* the all-zero exhaustion raised and the session was terminated
C1_Witness ==
    /\ pc = "done"
    /\ exc = Raise("RuntimeError", 259)
    /\ Count("terminate") = 1

\* C2: with the Airtop key unset (the default placeholder) or empty, the
\* run makes no call to the Airtop service and ends with the RuntimeError of
\* the pre-flight check.
C2_NoCallWithoutKey ==
    AIRTOP_API_KEY \in {"", AIRTOP_DEFAULT} =>
        /\ Count("sessions.create") = 0
        /\ FetchOver => exc = Raise("RuntimeError", 152)

(***************************************************************************)
(* Shapes of responses, described without the code's own normalisation.    *)
(***************************************************************************)
Pad == {<<>>, <<WS>>}
Quotes == {<<>>, <<DQ>>, <<SQ>>}

\* NO_DATA inside optional whitespace, inside optional quotes, inside
\* optional whitespace
WrappedSentinels ==
    { a \o q \o b \o NO_DATA \o c \o r \o d :
        a \in Pad, q \in Quotes, b \in Pad, c \in Pad, r \in Quotes, d \in Pad }

\* the renderings of a four-key integer payload: any of the two key orders,
\* bare or padded with whitespace
Renderings(f) ==
    { JsonText(KeyOrder, IntLits(f)),
      <<WS>> \o JsonText(RevOrder, IntLits(f)) \o <<WS, WS>> }

\* the one reading a text can be a rendering of: the number tokens of the
\* text, each under the key token of the same rank (the zero reading for a
\* text that has not four keys and four one-digit numbers)
ReadOff(raw) ==
    LET keys == SelectSeq(raw, LAMBDA t : t.k = "str")
        nums == SelectSeq(raw, LAMBDA t : t.k = "lit")
    IN  IF /\ Len(keys) = 4
           /\ Len(nums) = 4
           /\ {keys[j].s : j \in 1..4} = expected_keys
           /\ \A j \in 1..4 : IsDigit(nums[j].s)
        THEN [k \in expected_keys |->
                 DigitValue(nums[CHOOSE j \in 1..4 : keys[j].s = k].s)]
        ELSE ZeroReading

ZeroRenderings == Renderings(ZeroReading)

\* the first token that is not whitespace is not "{"
NotObjectStart(raw) ==
    \A n \in 0..Len(raw) :
        (\A j \in 1..n : raw[j].k = "ws") => (n = Len(raw) \/ raw[n + 1] # P("{"))

AllSentinel == \A i \in DOMAIN raws : raws[i] \in WrappedSentinels
AllZeroPayloads == \A i \in DOMAIN raws : raws[i] \in ZeroRenderings

\* C3: NO_DATA (bare or wrapped) on every attempt: attempts 1 and 2 return
\* nothing and go on to the backoff and the next attempt; after the third,
\* extraction returns None without raising, exactly 3 page queries were
\* issued, and neither update_airtable nor the PATCH ever happens; the run
\* ends with success.
C3_SentinelExhaustion ==
    /\ (raws # <<>> /\ AllSentinel /\ Len(raws) < max_attempts) =>
          /\ ret = "unset"
          /\ pc = "backoff" \/ attempt = Len(raws) + 1
    /\ (Len(raws) = max_attempts /\ AllSentinel) =>
          /\ ret = "None"
          /\ exc = NoExc
          /\ Count("page_query") = max_attempts
          /\ Count("update_airtable") = 0
          /\ Count("requests.patch") = 0
          /\ pc = "done" => exit_status = "success"

C3_Witness ==
    /\ pc = "done"
    /\ Len(raws) = max_attempts
    /\ AllSentinel
    /\ raws[2] = <<DQ>> \o NO_DATA \o <<DQ>>
    /\ raws[3] = <<WS, SQ, WS>> \o NO_DATA \o <<WS, SQ, WS>>

\* C4: an all-zero four-key payload on every attempt: attempts 1 and 2 are
\* followed by the backoff and the next iteration (no return, no raise of
\* the validation), attempt 3 raises the RuntimeError of line 259; and no
\* returned reading has all four values zero.
C4_AllZeroExhaustion ==
    /\ (raws # <<>> /\ AllZeroPayloads /\ Len(raws) < max_attempts) =>
          /\ ret = "unset"
          /\ pc = "backoff" \/ attempt = Len(raws) + 1
          /\ exc # NoExc => exc.line \in {208, 218}
    /\ (AllZeroPayloads /\ Len(raws) = max_attempts) =>
          /\ ret = "unset"
          /\ exc = Raise("RuntimeError", 259)
          /\ Count("page_query") = max_attempts
    /\ ret = "dict" =>
          \E k \in expected_keys : occupancy[k] \notin {PyInt(0), PyFloat(0)}

C4_Witness ==
    /\ pc = "done"
    /\ Len(raws) = max_attempts
    /\ AllZeroPayloads
    /\ exc = Raise("RuntimeError", 259)

\* C5: a four-key integer payload with a non-zero value is the last
\* response of the run, on whichever attempt it comes: its four values are
\* returned as they are and no further page query is issued.
C5_PassThrough ==
    \A i \in DOMAIN raws :
        LET f == ReadOff(raws[i])
        IN  (f # ZeroReading /\ raws[i] \in Renderings(f)) =>
                /\ i = Len(raws)
                /\ ret = "dict"
                /\ occupancy = [k \in expected_keys |-> PyInt(f[k])]
                /\ ~ FetchRaised
                /\ Count("page_query") = i

\* accepted on the third attempt, after a sentinel and an all-zero payload
C5_Witness ==
    /\ pc = "done"
    /\ Len(raws) = max_attempts
    /\ raws[1] \in WrappedSentinels
    /\ raws[2] \in ZeroRenderings
    /\ raws[3] \in Renderings([ZeroReading EXCEPT !["blocked_dates"] = MaxVal])
    /\ ret = "dict"

\* C6: a response that is neither the sentinel nor starts with "{" raises
\* the RuntimeError of line 241 on the attempt it comes on: it is the last
\* response of the run, nothing is returned, and the only backoff waits are
\* those of the attempts before it.
C6_ProtocolViolation ==
    \A i \in DOMAIN raws :
        (raws[i] \notin WrappedSentinels /\ NotObjectStart(raws[i])) =>
            /\ i = Len(raws)
            /\ exc = Raise("RuntimeError", 241)
            /\ ret = "unset"
            /\ Count("page_query") = i
            /\ Cardinality({j \in DOMAIN trace : trace[j] = Sleep("backoff")}) = i - 1

\* prose on the second attempt: one attempt was left
C6_Witness ==
    /\ pc = "done"
    /\ Len(raws) = 2
    /\ raws[2] = <<W("Sorry")>>
    /\ exc = Raise("RuntimeError", 241)
    /\ Count("page_query") = 2

\* C7: a JSON object without one of the four keys raises the ValueError of
\* line 249 on the attempt it comes on, whatever the values of the keys it
\* has: it is the last response of the run and nothing is returned.
C7_MissingKeys ==
    \A i \in DOMAIN raws :
        raws[i] \in MissingKeyTexts =>
            /\ i = Len(raws)
            /\ exc = Raise("ValueError", 249)
            /\ ret = "unset"
            /\ Count("page_query") = i

\* three zero values and no booked_units, on the first attempt
C7_Witness ==
    /\ pc = "done"
    /\ raws = <<JsonText(Without(KeyOrder, "booked_units"), IntLits(ZeroReading))>>
    /\ exc = Raise("ValueError", 249)

\* C8: update_airtable is called at most once and PATCH is sent at most
\* once, both only after extraction returned a reading (never after the
\* None outcome, never after a raise of the extraction), and after every
\* call to the Airtop service.
C8_UpdateOnlyAfterReading ==
    /\ Count("update_airtable") <= 1
    /\ Count("requests.patch") <= Count("update_airtable")
    /\ Count("update_airtable") = 1 => ret = "dict" /\ ~ FetchRaised
    /\ Count("update_airtable") = 1 =>
          LET u == CHOOSE i \in DOMAIN trace : trace[i].op = "update_airtable"
          IN  \A j \in DOMAIN trace : trace[j].op = "page_query" => j < u

C8_Witness ==
    /\ pc = "done"
    /\ Count("update_airtable") = 1
    /\ Count("requests.patch") = 1
    /\ exit_status = "success"

\* the four Airtable fields and the key of the reading each one carries
FieldSource ==
    ("Available Units" :> "available_units") @@ ("Booked Units" :> "booked_units")
    @@ ("Out of Service" :> "out_of_service") @@ ("Blocked Dates" :> "blocked_dates")

\* C9: when extraction returned a reading, update_airtable is called once,
\* and the body of the PATCH it sends is {"fields": F} with F exactly the
\* four configured fields, each holding its value of the reading.
C9_PatchBody ==
    /\ (pc = "done" /\ ret = "dict") => Count("update_airtable") = 1
    /\ Count("requests.patch") = 1 =>
          /\ DOMAIN patch_body = {"fields"}
          /\ patch_body.fields = [n \in DOMAIN FieldSource |-> occupancy[FieldSource[n]]]

\* a reading with a fifth key was written with its four fields
C9_Witness ==
    /\ pc = "done"
    /\ Count("requests.patch") = 1
    /\ "occupancy_pct" \in DOMAIN occupancy
    /\ occupancy["available_units"] # occupancy["blocked_dates"]

\* C10 (as stated): a returned reading has exactly the four keys, with
\* non-negative integer values that are not all zero.
C10_StrictShape ==
    ret = "dict" =>
        /\ DOMAIN occupancy = expected_keys
        /\ \A k \in expected_keys : occupancy[k].t = "int" /\ occupancy[k].v >= 0
        /\ \E k \in expected_keys : occupancy[k] # PyInt(0)

\* C10 (amended): a returned reading is the object of a response that starts
\* with "{"; it has at least the four keys, and its four values are not all
\* equal to zero (0 or 0.0).  Further keys and values that are negative or
\* no integers are returned as they came.
C10_LooseShape ==
    ret = "dict" =>
        /\ expected_keys \subseteq DOMAIN occupancy
        /\ \E k \in expected_keys : occupancy[k] \notin {PyInt(0), PyFloat(0)}
        /\ ~ NotObjectStart(raws[Len(raws)])
        /\ raws[Len(raws)] \notin WrappedSentinels

\* a reading with a negative value was returned and written
C10_Witness ==
    /\ pc = "done"
    /\ ret = "dict"
    /\ occupancy["booked_units"] = PyInt(-1)
    /\ Count("requests.patch") = 1

(***************************************************************************)
(* Exit status and logging.                                                *)
(***************************************************************************)
\* the result of the event `op`, when it is in the trace
Result(op) ==
    LET i == CHOOSE i \in DOMAIN trace : trace[i].op = op
    IN  trace[i].arg

\* the PATCH was sent and answered with a success status
PatchSucceeded == Count("patch.result") = 1 /\ Result("patch.result") = "2xx"

\* C11: the process ends with success exactly when extraction returned a
\* reading and the PATCH got a success response, or extraction returned
\* None; otherwise an exception is in flight out of main and the process
\* ends with failure.
C11_ExitStatus ==
    pc = "done" =>
        /\ exit_status \in {"success", "failure"}
        /\ exit_status = "success" <=>
              (ret = "dict" /\ PatchSucceeded) \/ ret = "None"
        /\ exit_status = "failure" <=> exc # NoExc
        /\ ret = "None" => Count("update_airtable") = 0

\* the backend answered with an error status: the process fails
C11_Witness ==
    /\ pc = "done"
    /\ ret = "dict"
    /\ Count("patch.result") = 1
    /\ Result("patch.result") = "4xx"
    /\ exit_status = "failure"

\* level of the last log line, "none" when nothing was logged
LastLogLevel ==
    LET logs == SelectSeq(trace, LAMBDA e : e.op = "log")
    IN  IF logs = <<>> THEN "none" ELSE logs[Len(logs)].arg

\* an exception has just left the main flow of fetch_occupancy_from_cloudbeds
\* (the cleanup of the finally block has not run yet)
FetchPropagates ==
    \/ pc = "finally" /\ exc # NoExc
    \/ pc = "main" /\ exc = Raise("RuntimeError", 152)

\* an exception has just left update_airtable
UpdatePropagates == pc = "done" /\ exc # NoExc /\ exc.line \in UpdateRaiseLines

\* C12 (as stated): whenever an exception leaves the main flow of the
\* extractor or of the updater, the last log line is at ERROR level.
C12_ErrorBeforeEveryFatal ==
    (FetchPropagates \/ UpdatePropagates) => LastLogLevel = "ERROR"

\* C12 (amended): the last log line before the propagation is at ERROR
\* level exactly for an ApiError, ReadTimeout or HTTPError thrown by a call
\* to the Airtop client and for an error status of the backend; every other
\* fatal error propagates with no ERROR line logged at all.
C12_ErrorOnlyForTransport ==
    /\ FetchPropagates =>
          /\ LastLogLevel = "ERROR" <=> exc.type \in AirtopThrows
          /\ exc.type \notin AirtopThrows => Log("ERROR") \notin Range(trace)
    /\ UpdatePropagates =>
          /\ LastLogLevel = "ERROR" <=> exc.type = "requests.HTTPError"
          /\ exc.type # "requests.HTTPError" => Log("ERROR") \notin Range(trace)

\* a read timeout of the second page query was logged at ERROR
C12_Witness ==
    /\ pc = "finally"
    /\ exc = Raise("ReadTimeout", 208)
    /\ Len(raws) = 1
    /\ trace[Len(trace)] = Log("ERROR")

\* C13: with the Airtable key unset (the default placeholder) or empty, no
\* PATCH is sent and no body is built: update_airtable, once called, ends
\* with the RuntimeError of line 102.
C13_NoPatchWithoutKey ==
    AIRTABLE_API_KEY \in {"", AIRTABLE_DEFAULT} =>
        /\ Count("requests.patch") = 0
        /\ patch_body = <<>>
        /\ (pc = "done" /\ Count("update_airtable") = 1) =>
              exc = Raise("RuntimeError", 102) /\ exit_status = "failure"

\* a reading was extracted and the key was the placeholder
C13_Witness ==
    /\ pc = "done"
    /\ AIRTABLE_API_KEY = AIRTABLE_DEFAULT
    /\ ret = "dict"
    /\ Count("update_airtable") = 1
    /\ exc = Raise("RuntimeError", 102)

(***************************************************************************)
(* Order of the calls.                                                     *)
(***************************************************************************)
\* positions of the events `op` in the trace
At(op) == {i \in DOMAIN trace : trace[i].op = op}

\* sessions.create has returned a response without errors
SessionReturned ==
    /\ pc \notin {"fetch", "sessions_create"}
    /\ exc.line \notin {152, 170, 172}

\* C14: the profile-persist request is issued at most once, after
\* sessions.create, as the first call once sessions.create has returned;
\* every windows.create and every page_query comes after it.
C14_ProfileBeforeNavigation ==
    /\ Count("save_profile_on_termination") <= 1
    /\ \A j \in At("save_profile_on_termination") :
          \E k \in At("sessions.create") : k < j
    /\ \A i \in At("windows.create") \cup At("page_query") :
          \E j \in At("save_profile_on_termination") : j < i
    /\ (SessionReturned /\ pc # "save_profile") =>
          Count("save_profile_on_termination") = 1

\* a run that went on to query the page
C14_Witness ==
    /\ pc = "done"
    /\ Count("save_profile_on_termination") = 1
    /\ Count("windows.create") = 1
    /\ Count("page_query") = 2

\* the terminate call raised
TerminateFailed ==
    Count("terminate.result") = 1 /\ Result("terminate.result") = "Exception"

\* C15: the finally block changes neither the exception in flight nor the
\* value returned, whether terminate succeeds or raises; a failure of
\* terminate is followed by a WARNING line, and a reading returned before
\* it still reaches update_airtable.
C15_TerminateFailureIgnored ==
    /\ [][pc = "finally" =>
            /\ exc' = exc
            /\ ret' = ret
            /\ occupancy' = occupancy
            /\ pc' = "main"]_vars
    /\ [](TerminateFailed =>
            /\ \A i \in At("terminate.result") : trace[i + 1] = Log("WARNING")
            /\ exc.type # "Exception"
            /\ (pc = "done" /\ ret = "dict") => Count("update_airtable") = 1)

\* terminate raised, the reading was written all the same
C15_Witness ==
    /\ pc = "done"
    /\ TerminateFailed
    /\ ret = "dict"
    /\ PatchSucceeded
    /\ exit_status = "success"

\* the calls to the Airtop client inside the try block, by line
ThrowingCall ==
    (170 :> "sessions.create") @@ (178 :> "save_profile_on_termination")
    @@ (181 :> "windows.create") @@ (208 :> "page_query")

\* position of the last of those calls
LastAirtopCall ==
    LET at == UNION {At(ThrowingCall[l]) : l \in DOMAIN ThrowingCall}
    IN  CHOOSE i \in at : \A j \in at : j <= i

\* C16: once a call to the Airtop client threw ApiError, ReadTimeout or
\* HTTPError, that call stays the last one made in the try block: no sleep
\* and no page query follow, nothing is returned, the error is the one that
\* leaves the extractor, and update_airtable is not called.
C16_TransportErrorNotRetried ==
    exc.type \in AirtopThrows =>
        /\ exc.line \in DOMAIN ThrowingCall
        /\ trace[LastAirtopCall].op = ThrowingCall[exc.line]
        /\ \A i \in At("sleep") : i < LastAirtopCall
        /\ Count("page_query") = Len(raws) + (IF exc.line = 208 THEN 1 ELSE 0)
        /\ ret = "unset"
        /\ Count("update_airtable") = 0
        /\ Count("requests.patch") = 0
        /\ pc = "done" => exit_status = "failure"

\* the second page query timed out, one attempt was left
C16_Witness ==
    /\ pc = "done"
    /\ exc = Raise("ReadTimeout", 208)
    /\ Count("page_query") = 2
    /\ Len(raws) = 1

\* positions of the backoff sleeps
Backoffs == {i \in DOMAIN trace : trace[i] = Sleep("backoff")}

\* C17: at most 3 page queries are issued; between any two of them there is
\* a backoff sleep; there are never more backoff sleeps than page queries
\* less one, so none follows the last attempt.
C17_BoundedRetry ==
    /\ Count("page_query") <= max_attempts
    /\ attempt <= max_attempts
    /\ \A i, j \in At("page_query") :
          i < j => \E k \in Backoffs : i < k /\ k < j
    /\ Cardinality(Backoffs) <= Count("page_query")
    /\ Cardinality(Backoffs) < max_attempts
    /\ Count("page_query") = max_attempts =>
          /\ pc # "backoff"
          /\ \A k \in Backoffs : \E i \in At("page_query") : k < i

\* three attempts, a sentinel and an all-zero payload among them
C17_Witness ==
    /\ pc = "done"
    /\ Count("page_query") = max_attempts
    /\ Cardinality(Backoffs) = 2
    /\ raws[1] \in WrappedSentinels
    /\ raws[2] \in ZeroRenderings

\* C18: after sentinel and all-zero responses on attempts 1 and 2, the third
\* response alone decides: a sentinel gives the None outcome, an all-zero
\* payload the RuntimeError of line 259; the raise of line 269 after the
\* loop is never reached.
C18_ThirdAttemptDecides ==
    /\ exc.line # 269
    /\ Len(raws) = max_attempts =>
          /\ raws[max_attempts] \in WrappedSentinels =>
                ret = "None" /\ exc = NoExc
          /\ raws[max_attempts] \in ZeroRenderings =>
                ret = "unset" /\ exc = Raise("RuntimeError", 259)

\* an all-zero payload first, a sentinel last: the None outcome
C18_Witness ==
    /\ pc = "done"
    /\ Len(raws) = max_attempts
    /\ raws[1] \in ZeroRenderings
    /\ raws[3] \in WrappedSentinels
    /\ ret = "None"
    /\ exit_status = "success"

\* C19: when the run holds a session, update_airtable and the PATCH come
\* after the terminate call.
C19_TerminateBeforePatch ==
    session_id # "None" =>
        \A i \in At("update_airtable") \cup At("requests.patch") :
            \E j \in At("terminate") : j < i

C19_Witness ==
    /\ pc = "done"
    /\ session_id = "sess-1"
    /\ Count("terminate") = 1
    /\ Count("requests.patch") = 1

\* the calls that take a session id
SessionScopedOps ==
    {"save_profile_on_termination", "windows.create", "page_query", "terminate"}

\* C20: every call that takes a session id carries the id sessions.create
\* gave; when it gave none, no such call is made and the run fails.
C20_SessionScopedCallsCarryId ==
    /\ \A i \in DOMAIN trace :
          trace[i].op \in SessionScopedOps => trace[i].arg = "sess-1"
    /\ (FetchOver /\ session_id = "None") => FetchRaised

====
